---- MODULE Spec2Model ----
(***************************************************************************)
(* Model of Config (src/index.js, lines 195-482): an in-memory JSON        *)
(* object written back to one file after a debounce timer, with an         *)
(* fs.watch subscription on the directory that re-reads the file when      *)
(* another process changes it.                                             *)
(*                                                                         *)
(* Bytes are sequences of one-character tokens.  The storage backend       *)
(* (file-manager) and fs.watch are asynchronous: a write first lands on    *)
(* disk and later runs its callback, a read hands its callback the bytes   *)
(* the file holds when the callback runs, a notification is queued on a    *)
(* watcher and later delivered.                                            *)
(***************************************************************************)
EXTENDS Integers, Sequences, FiniteSets, TLC

\* ------------------------------------------------------------------ bounds
MaxMut == 2
MaxExt == 1
MaxExit == 1
MaxInit == 1
MaxFail == 1
MaxOps == 3

\* ------------------------------------------------------------ value space
Keys == {"a"}
Values == {"1"}
Undefined == "undefined"

\* a JS object: the sequence of its <<key, value>> pairs in insertion order
EmptyData == << >>
DataSet == {EmptyData} \cup { << <<k, v>> >> : k \in Keys, v \in Values }

HasKey(d, k) == \E i \in DOMAIN d : d[i][1] = k

\* this._data[key] = value
SetKey(d, k, v) ==
    IF HasKey(d, k)
    THEN [i \in DOMAIN d |-> IF d[i][1] = k THEN <<k, v>> ELSE d[i]]
    ELSE Append(d, <<k, v>>)

\* delete this._data[key]
DeleteKey(d, k) == SelectSeq(d, LAMBDA p : p[1] # k)

\* JSON.stringify(this._data)
RECURSIVE Members(_)
Members(d) ==
    IF d = << >> THEN << >>
    ELSE IF Len(d) = 1 THEN << d[1][1], ":", d[1][2] >>
    ELSE << d[1][1], ":", d[1][2], "," >> \o Members(Tail(d))

Stringify(d) == <<"{">> \o Members(d) \o <<"}">>

\* JSON.parse inside parseJSON: whitespace is skipped, a repeated key keeps
\* its first position and its last value, anything malformed is null
Strip(s) == SelectSeq(s, LAMBDA t : t # " ")

WellFormedBody(b) ==
    \/ b = << >>
    \/ /\ Len(b) % 4 = 3
       /\ \A i \in DOMAIN b :
            CASE i % 4 = 1 -> b[i] \in Keys
              [] i % 4 = 2 -> b[i] = ":"
              [] i % 4 = 3 -> b[i] \in Values
              [] OTHER     -> b[i] = ","

WellFormed(s) ==
    LET t == Strip(s) IN
    /\ Len(t) >= 2
    /\ t[1] = "{"
    /\ t[Len(t)] = "}"
    /\ WellFormedBody(SubSeq(t, 2, Len(t) - 1))

RECURSIVE Fold(_, _)
Fold(b, acc) ==
    IF Len(b) < 3 THEN acc
    ELSE Fold(SubSeq(b, 5, Len(b)), SetKey(acc, b[1], b[3]))

parseJSON(s) ==
    IF WellFormed(s)
    THEN [isNull |-> FALSE,
          value |-> LET t == Strip(s) IN Fold(SubSeq(t, 2, Len(t) - 1), EmptyData)]
    ELSE [isNull |-> TRUE, value |-> EmptyData]

\* md5(bytes): equal digests iff equal bytes; NoDigest is this._md5 === null
NoDigest == << >>
md5(s) == <<"md5">> \o s

\* results of storage.readFile other than bytes
NoFile == <<"ENOENT">>
IOError == <<"EIO">>

\* what another process may put into the file (also what the file may hold
\* when the instance is constructed)
ExtContents ==
    { Stringify(<< <<"a", "1">> >>),
      <<"{", " ", "a", ":", "1", "}">>,
      <<"{", "a">> }

\* ------------------------------------------------------------------- state
VARIABLES
    watch,        \* this.watch (option)
    _data,        \* this._data
    changed,      \* this.changed
    _md5,         \* this._md5
    _timeout,     \* TRUE iff this._timeout refers to a timer that is still to fire
    strayTimers,  \* live timers that this._timeout no longer refers to
    _watch,       \* this._watch: "undef", "open" or "closed"
    notif,        \* a 'change' event for the file is queued on this._watch
    strayWatch,   \* open watchers that this._watch no longer refers to
    strayNotif,   \* 'change' events queued on those watchers
    file,         \* bytes of the config file, or NoFile
    writes,       \* storage.writeFile calls in flight, in the order issued
    reads,        \* storage.readFile calls in flight, in the order issued
    events,       \* 'change' emissions so far: <<oldData, newData>>
    errorEvents,  \* number of 'error' emissions so far
    exitCb,       \* arguments the exit callbacks were invoked with
    initCb,       \* arguments the init callbacks were invoked with
    exitThrew,    \* a call of exit threw
    hist,         \* bookkeeping for the properties (see Hist0)
    last          \* the handler that ran last

watcherVars == <<_watch, notif, strayWatch, strayNotif>>
timerVars == <<_timeout, strayTimers>>
outVars == <<events, errorEvents, exitCb, initCb, exitThrew>>
vars == <<watch, _data, changed, _md5, _timeout, strayTimers, _watch, notif,
          strayWatch, strayNotif, file, writes, reads, events, errorEvents,
          exitCb, initCb, exitThrew, hist, last>>

Hist0 ==
    [nMut |-> 0,            \* effective mutator calls
     nExt |-> 0,            \* writes by other processes
     nExit |-> 0,           \* exit calls
     nInit |-> 0,           \* init calls
     nFail |-> 0,           \* storage failures injected
     nIgnored |-> 0,        \* mutator calls and watch events the code ignores
     writeFailed |-> FALSE, \* some writeFile reported an error
     pendingMuts |-> 0,     \* mutator calls since the last flush was invoked
     lastMutData |-> EmptyData, \* this._data right after the last mutator call
     touched |-> FALSE,     \* a read replaced this._data since the last mutator call
     lastSynced |-> NoFile, \* bytes last successfully written or read
     flushed |-> 0,         \* mutator calls covered by the last flush invoked
     mutSinceExit |-> FALSE, \* a mutator was called after exit
     nWrites |-> 0]         \* storage.writeFile calls issued

\* calls made and failures injected so far
Ops == hist.nMut + hist.nExt + hist.nExit + hist.nInit + hist.nFail + hist.nIgnored

Init ==
    /\ watch \in BOOLEAN
    /\ _data = EmptyData
    /\ changed = FALSE
    /\ _md5 = NoDigest
    /\ _timeout = FALSE
    /\ strayTimers = 0
    /\ _watch = IF watch THEN "open" ELSE "undef"
    /\ notif = FALSE
    /\ strayWatch = 0
    /\ strayNotif = 0
    /\ file \in {NoFile} \cup ExtContents
    /\ writes = << >>
    /\ reads = << >>
    /\ events = << >>
    /\ errorEvents = 0
    /\ exitCb = << >>
    /\ initCb = << >>
    /\ exitThrew = FALSE
    /\ hist = Hist0
    /\ last = "new"

\* ------------------------------------------------------------ the watcher
\* the fs.watch handles of the instance, as one value
Watcher == [h |-> _watch, n |-> notif, sw |-> strayWatch, sn |-> strayNotif]

SetWatcher(w) ==
    /\ _watch' = w.h
    /\ notif' = w.n
    /\ strayWatch' = w.sw
    /\ strayNotif' = w.sn

\* this._watch.close(): events queued on the closed handle are dropped
close(w) == [w EXCEPT !.h = "closed", !.n = FALSE]

\* this._watch = fs.watch(...): a handle that was still open stays open,
\* unreferenced, with whatever was queued on it
_watchDirectory(w) ==
    [h |-> "open",
     n |-> FALSE,
     sw |-> w.sw + (IF w.h = "open" THEN 1 ELSE 0),
     sn |-> w.sn + (IF w.h = "open" /\ w.n THEN 1 ELSE 0)]

\* the file changed on disk: every open watcher gets a 'change' event
Notify(w) == [w EXCEPT !.n = (w.h = "open"), !.sn = w.sn + w.sw]

\* ------------------------------------------------------------- the timer
Timer == [ref |-> _timeout, stray |-> strayTimers]

SetTimer(t) ==
    /\ _timeout' = t.ref
    /\ strayTimers' = t.stray

\* a clearTimeout that cancels nothing: the timer keeps running
clearTimeout_NoCancel(t) ==
    [ref |-> FALSE, stray |-> t.stray + (IF t.ref THEN 1 ELSE 0)]

\* clearTimeout(this._timeout)
clearTimeout(t) == [t EXCEPT !.ref = FALSE]

\* this._timeout = null: a live timer it referred to keeps running
ForgetTimer(t) == [ref |-> FALSE, stray |-> t.stray + (IF t.ref THEN 1 ELSE 0)]

\* _waitPersist without its clearTimeout: the timer armed before keeps running
_waitPersist_NoClear(t) == [ForgetTimer(t) EXCEPT !.ref = TRUE]

\* _waitPersist: clearTimeout(this._timeout); this._timeout = setTimeout(...)
_waitPersist(t) == [clearTimeout(t) EXCEPT !.ref = TRUE]

\* ----------------------------------------------------------- callbacks
\* callback(err) of _persistToDisk: noop for the timer, the caller's for exit
Callback(callback, err) ==
    exitCb' = IF callback = "exit" THEN Append(exitCb, err) ELSE exitCb

\* ------------------------------------------------------- _persistToDisk
\* _persistToDisk without the digest comparison
SkipWrite_Never(hash) == FALSE

\* "The config did not change, don't save it"
SkipWrite(hash) == _md5 # NoDigest /\ _md5 = hash

\* entered with watcher w, timer t and bookkeeping h as the caller left them
_persistToDisk(callback, w, t, h) ==
    LET json == Stringify(_data)
        hash == md5(json)
    IN
    /\ SetTimer(ForgetTimer(t))
    /\ IF ~changed \/ SkipWrite(hash)
       THEN /\ Callback(callback, "ok")
            /\ SetWatcher(w)
            /\ writes' = writes
            /\ hist' = h
       ELSE /\ SetWatcher(IF watch THEN close(w) ELSE w)
            /\ writes' = Append(writes, [json |-> json, hash |-> hash,
                                         callback |-> callback, stage |-> "pending"])
            /\ exitCb' = exitCb
            /\ hist' = [h EXCEPT !.nWrites = @ + 1]
    /\ UNCHANGED <<watch, _data, changed, _md5, file, reads, events,
                   errorEvents, initCb, exitThrew>>

\* the debounce timer fires: Config.prototype._persistToDisk.bind(this, noop)
TimerFire ==
    /\ _timeout \/ strayTimers > 0
    /\ \E ref \in {b \in BOOLEAN : IF b THEN _timeout ELSE strayTimers > 0} :
         _persistToDisk("noop", Watcher,
                        IF ref THEN [Timer EXCEPT !.ref = FALSE]
                               ELSE [Timer EXCEPT !.stray = @ - 1],
                        [hist EXCEPT !.pendingMuts = 0, !.flushed = hist.pendingMuts])
    /\ last' = "timer"

\* storage.writeFile puts the bytes on disk, or fails
WriteLand(i) ==
    /\ writes[i].stage = "pending"
    /\ \/ /\ writes' = [writes EXCEPT ![i].stage = "landed"]
          /\ file' = writes[i].json
          /\ SetWatcher(Notify(Watcher))
          /\ hist' = hist
          /\ last' = "writeLand"
       \/ /\ hist.nFail < MaxFail /\ Ops < MaxOps
          /\ writes' = [writes EXCEPT ![i].stage = "failed"]
          /\ file' = file
          /\ SetWatcher(Watcher)
          /\ hist' = [hist EXCEPT !.nFail = @ + 1]
          /\ last' = "writeFail"
    /\ UNCHANGED <<watch, _data, changed, _md5, timerVars, reads, outVars>>

RemoveAt(s, i) == SubSeq(s, 1, i - 1) \o SubSeq(s, i + 1, Len(s))

\* the callback of storage.writeFile in _persistToDisk
WriteDone(i) ==
    LET w == writes[i]
        err == w.stage = "failed"
    IN
    /\ w.stage # "pending"
    /\ writes' = RemoveAt(writes, i)
    /\ changed' = IF err THEN changed ELSE FALSE
    /\ _md5' = IF err THEN _md5 ELSE w.hash
    /\ SetWatcher(IF watch THEN _watchDirectory(Watcher) ELSE Watcher)
    /\ Callback(w.callback, IF err THEN "err" ELSE "ok")
    /\ hist' = IF err THEN [hist EXCEPT !.writeFailed = TRUE]
                      ELSE [hist EXCEPT !.lastSynced = w.json]
    /\ last' = IF err THEN "writeDoneErr" ELSE "writeDone"
    /\ UNCHANGED <<watch, _data, timerVars, file, reads, events, errorEvents,
                   initCb, exitThrew>>

\* ------------------------------------------------------------- mutators
\* what set, del and replace share once the new data is known
Mutate(newData, name) ==
    /\ hist.nMut < MaxMut /\ Ops < MaxOps
    /\ _data' = newData
    /\ changed' = TRUE
    /\ SetTimer(_waitPersist(Timer))
    /\ hist' = [hist EXCEPT !.nMut = @ + 1, !.pendingMuts = @ + 1,
                            !.lastMutData = newData, !.touched = FALSE,
                            !.mutSinceExit = (hist.nExit > 0)]
    /\ last' = name
    /\ UNCHANGED <<watch, _md5, watcherVars, file, writes, reads, outVars>>

\* a mutator returning at its guard
Guarded(name) ==
    /\ Ops < MaxOps
    /\ hist' = [hist EXCEPT !.nIgnored = @ + 1]
    /\ last' = name
    /\ UNCHANGED <<watch, _data, changed, _md5, timerVars, watcherVars, file,
                   writes, reads, outVars>>

\* set without the key === undefined return
set_NoGuard(key, value) == Mutate(SetKey(_data, key, value), "set")

set(key, value) ==
    IF key = Undefined THEN Guarded("set:undefined")
    ELSE Mutate(SetKey(_data, key, value), "set")

del(key) ==
    IF key = Undefined THEN Guarded("del:undefined")
    ELSE Mutate(DeleteKey(_data, key), "del")

replace(defined, newData) ==
    IF ~defined THEN Guarded("replace:undefined")
    ELSE Mutate(newData, "replace")

\* ------------------------------------------------------------------ exit
exit ==
    /\ hist.nExit < MaxExit /\ Ops < MaxOps
    /\ last' = "exit"
    /\ IF _watch = "undef"
       THEN \* this._watch.close() on undefined: TypeError
            /\ exitThrew' = TRUE
            /\ hist' = [hist EXCEPT !.nExit = @ + 1]
            /\ UNCHANGED <<watch, _data, changed, _md5, timerVars, watcherVars,
                           file, writes, reads, events, errorEvents, exitCb, initCb>>
       ELSE _persistToDisk("exit", close(Watcher), clearTimeout(Timer),
                           [hist EXCEPT !.nExit = @ + 1, !.pendingMuts = 0,
                                        !.flushed = hist.pendingMuts])

\* ------------------------------------------------------------------ init
init ==
    /\ hist.nInit < MaxInit /\ Ops < MaxOps
    /\ reads' = Append(reads, [callback |-> "init"])
    /\ hist' = [hist EXCEPT !.nInit = @ + 1]
    /\ last' = "init"
    /\ UNCHANGED <<watch, _data, changed, _md5, timerVars, watcherVars, file,
                   writes, outVars>>

\* _getFromDisk with ENOENT passed on like any other read error
_getFromDisk_NoEnoent(result) ==
    LET parsed == parseJSON(result)
        hash == md5(result)
        differs == _md5 # NoDigest /\ _md5 # hash
    IN
    IF result = IOError \/ result = NoFile
    THEN [err |-> TRUE, defined |-> FALSE, newData |-> EmptyData,
          data |-> _data, md5 |-> _md5, events |-> events]
    ELSE IF parsed.isNull
    THEN [err |-> TRUE, defined |-> FALSE, newData |-> EmptyData,
          data |-> _data, md5 |-> _md5, events |-> events]
    ELSE [err |-> FALSE, defined |-> TRUE, newData |-> parsed.value,
          data |-> IF differs THEN parsed.value ELSE _data,
          md5 |-> hash,
          events |-> IF differs THEN Append(events, <<_data, parsed.value>>)
                                ELSE events]

\* _getFromDisk without the newData === null return: content that does not
\* decode is handled like content that does
_getFromDisk_NoNullCheck(result) ==
    LET parsed == parseJSON(result)
        hash == md5(result)
        differs == _md5 # NoDigest /\ _md5 # hash
    IN
    IF result = IOError
    THEN [err |-> TRUE, defined |-> FALSE, newData |-> EmptyData,
          data |-> _data, md5 |-> _md5, events |-> events]
    ELSE IF result = NoFile
    THEN [err |-> FALSE, defined |-> FALSE, newData |-> EmptyData,
          data |-> _data, md5 |-> _md5, events |-> events]
    ELSE [err |-> FALSE, defined |-> TRUE, newData |-> parsed.value,
          data |-> IF differs THEN parsed.value ELSE _data,
          md5 |-> hash,
          events |-> IF differs THEN Append(events, <<_data, parsed.value>>)
                                ELSE events]

\* _getFromDisk's callback of storage.readFile, up to its call of callback:
\* what it passes on and what it leaves in this._data, this._md5, the events
_getFromDisk(result) ==
    LET parsed == parseJSON(result)
        hash == md5(result)
        differs == _md5 # NoDigest /\ _md5 # hash
    IN
    IF result = IOError
    THEN [err |-> TRUE, defined |-> FALSE, newData |-> EmptyData,
          data |-> _data, md5 |-> _md5, events |-> events]
    ELSE IF result = NoFile
    THEN [err |-> FALSE, defined |-> FALSE, newData |-> EmptyData,
          data |-> _data, md5 |-> _md5, events |-> events]
    ELSE IF parsed.isNull
    THEN [err |-> TRUE, defined |-> FALSE, newData |-> EmptyData,
          data |-> _data, md5 |-> _md5, events |-> events]
    ELSE [err |-> FALSE, defined |-> TRUE, newData |-> parsed.value,
          data |-> IF differs THEN parsed.value ELSE _data,
          md5 |-> hash,
          events |-> IF differs THEN Append(events, <<_data, parsed.value>>)
                                ELSE events]

\* storage.readFile completes with result (the bytes of the file, NoFile
\* for ENOENT, or IOError): _getFromDisk, then the callback init or
\* _directoryChanged gave it
ReadDone(i, result) ==
    LET r == reads[i]
        g == _getFromDisk(result)
        isInit == r.callback = "init"
        data2 == IF isInit /\ ~g.err /\ g.defined THEN g.newData ELSE g.data
    IN
    /\ \/ result = file
       \/ result = IOError /\ hist.nFail < MaxFail /\ Ops < MaxOps
    /\ reads' = RemoveAt(reads, i)
    /\ _data' = data2
    /\ _md5' = g.md5
    /\ events' = g.events
    /\ initCb' = IF isInit THEN Append(initCb, IF g.err THEN "err" ELSE "ok")
                           ELSE initCb
    /\ SetWatcher(IF isInit THEN Watcher ELSE _watchDirectory(Watcher))
    /\ hist' = [hist EXCEPT
                  !.nFail = IF result = IOError THEN @ + 1 ELSE @,
                  !.lastSynced = IF g.defined THEN result ELSE @,
                  !.touched = IF g.defined /\ (isInit \/ g.data # _data \/ g.events # events)
                              THEN TRUE ELSE @]
    /\ last' = IF g.err THEN "readDoneErr"
               ELSE IF ~g.defined THEN "readDoneNoFile"
               ELSE "readDone"
    /\ UNCHANGED <<watch, changed, timerVars, file, writes, errorEvents,
                   exitCb, exitThrew>>

\* ----------------------------------------------------- watch notifications
Filename == "options.json"

\* the listener given to fs.watch, entered with the watcher as w
_directoryChanged(event, filename, w) ==
    /\ IF filename = Filename /\ event = "change"
       THEN /\ SetWatcher(close(w))
            /\ reads' = Append(reads, [callback |-> "watch"])
            /\ hist' = hist
            /\ last' = "directoryChanged"
       ELSE /\ SetWatcher(w)
            /\ reads' = reads
            /\ hist' = [hist EXCEPT !.nIgnored = @ + 1]
            /\ last' = "directoryIgnored"
    /\ UNCHANGED <<watch, _data, changed, _md5, timerVars, file, writes,
                   outVars>>

\* the event queued on this._watch is delivered
Deliver ==
    /\ _watch = "open"
    /\ notif
    /\ _directoryChanged("change", Filename, [Watcher EXCEPT !.n = FALSE])

\* an event queued on a watcher that this._watch no longer refers to
DeliverStray ==
    /\ strayNotif > 0
    /\ _directoryChanged("change", Filename, [Watcher EXCEPT !.sn = @ - 1])

\* an event of the directory that is not a 'change' of the config file
OtherEvent ==
    /\ Ops < MaxOps
    /\ _watch = "open" \/ strayWatch > 0
    /\ \E e \in {"change", "rename"}, f \in {Filename, "other.json"} :
         /\ ~(e = "change" /\ f = Filename)
         /\ _directoryChanged(e, f, Watcher)

\* another process writes the file
ExternalWrite(c) ==
    /\ hist.nExt < MaxExt /\ Ops < MaxOps
    /\ file' = c
    /\ SetWatcher(Notify(Watcher))
    /\ hist' = [hist EXCEPT !.nExt = @ + 1]
    /\ last' = "external"
    /\ UNCHANGED <<watch, _data, changed, _md5, timerVars, writes, reads, outVars>>

\* ------------------------------------------------------------------- next
Next ==
    \/ \E k \in Keys \cup {Undefined}, v \in Values : set(k, v)
    \/ \E k \in Keys \cup {Undefined} : del(k)
    \/ \E b \in BOOLEAN, d \in DataSet : replace(b, d)
    \/ TimerFire
    \/ \E i \in DOMAIN writes : WriteLand(i)
    \/ \E i \in DOMAIN writes : WriteDone(i)
    \/ init
    \/ \E i \in DOMAIN reads, r \in {file, IOError} : ReadDone(i, r)
    \/ Deliver
    \/ DeliverStray
    \/ OtherEvent
    \/ \E c \in ExtContents : ExternalWrite(c)
    \/ exit

Spec == Init /\ [][Next]_vars

\* ------------------------------------------------------------ properties
\* this step completes read i, started by _directoryChanged, with result
WatchReadDone(i, result) ==
    /\ reads[i].callback = "watch"
    /\ ReadDone(i, result)

IsBytes(result) == result # NoFile /\ result # IOError

\* the exit callback is invoked by this step, with no error
ExitCallbackOk ==
    /\ Len(exitCb') = Len(exitCb) + 1
    /\ exitCb'[Len(exitCb')] = "ok"

\* C1: with every write succeeding, no other process writing and no mutator
\* called after exit, whenever the exit callback is invoked with no error the
\* file holds the serialization of the in-memory data.
C1_ExitSaves ==
    [][(/\ ExitCallbackOk
        /\ hist'.nMut >= 1
        /\ hist'.nExt = 0
        /\ hist'.nFail = 0
        /\ ~hist'.mutSinceExit)
       => file' = Stringify(_data')]_vars

\* C2: with watching enabled and nothing but the instance's own flushes
\* writing the file (no other process, no init read), no 'change' event is
\* ever emitted.
C2_NoFeedback ==
    (watch /\ hist.nExt = 0 /\ hist.nInit = 0) => events = << >>

\* C3: when a reconciling read returns valid JSON that decodes to something
\* other than the in-memory store, its completion sets the store to the
\* decoded content and emits one 'change' event carrying (store before,
\* store after).
C3_Reconciles ==
    [][\A i \in DOMAIN reads :
         (/\ WatchReadDone(i, file)
          /\ IsBytes(file)
          /\ ~parseJSON(file).isNull
          /\ parseJSON(file).value # _data)
         => /\ _data' = parseJSON(file).value
            /\ events' = Append(events, <<_data, _data'>>)]_vars

\* C4: whenever the dirty flag is false, the serialization of the in-memory
\* data equals the bytes last successfully written or read, unless nothing
\* was written or read yet.  (Stated with no other process writing and no
\* init read, so that every byte involved was produced by Stringify.)
C4_DirtyFlag ==
    (~changed /\ hist.nExt = 0 /\ hist.nInit = 0)
    => (hist.lastSynced = NoFile \/ Stringify(_data) = hist.lastSynced)

\* timers of the instance that are still to fire
TimersOutstanding == (IF _timeout THEN 1 ELSE 0) + strayTimers

\* the flush invoked by this step issued a write
WriteIssued == hist'.nWrites = hist.nWrites + 1

\* C5 (as stated): mutator calls with no timer firing between them are
\* covered by exactly one pending timer, hence one flush; that flush issues
\* at most one write, and the write carries the data as of the last mutator
\* call (checked on runs in which init is never called).
C5_Original ==
    /\ [](TimersOutstanding = IF hist.pendingMuts >= 1 THEN 1 ELSE 0)
    /\ [][TimerFire =>
            /\ hist.pendingMuts >= 1
            /\ hist'.pendingMuts = 0
            /\ hist'.nWrites <= hist.nWrites + 1
            /\ (WriteIssued /\ hist.nInit = 0) =>
                 writes'[Len(writes')].json = Stringify(hist.lastMutData)]_vars

\* C5 (amended): as above, but the write carries the data as of the last
\* mutator call only if no init or reconciling read replaced the in-memory
\* data after that call; in every case it carries the data held at the flush.
C5_Coalescing ==
    /\ [](TimersOutstanding = IF hist.pendingMuts >= 1 THEN 1 ELSE 0)
    /\ [][TimerFire =>
            /\ hist.pendingMuts >= 1
            /\ hist'.pendingMuts = 0
            /\ hist'.nWrites <= hist.nWrites + 1
            /\ WriteIssued => writes'[Len(writes')].json = Stringify(_data)
            /\ (WriteIssued /\ ~hist.touched) =>
                 writes'[Len(writes')].json = Stringify(hist.lastMutData)]_vars

\* two mutator calls were covered by one flush, which issued the only write
C5_Witness ==
    /\ last = "timer"
    /\ hist.flushed >= 2
    /\ hist.nWrites = 1
    /\ Len(writes) = 1
    /\ ~hist.touched
    /\ writes[1].json = Stringify(hist.lastMutData)

\* C6: once exit has been called, this._watch is never open again (checked
\* on runs in which the storage backend never fails).
C6_ExitCloses ==
    (hist.nExit > 0 /\ ~exitThrew /\ hist.nFail = 0) => _watch # "open"

\* C7: a call of exit does not fail synchronously, with watching enabled or
\* disabled.
C7_ExitCompletes == ~exitThrew

\* C8: a flush (by the timer or by exit) of data whose digest equals the
\* last-known digest issues no write and leaves the file alone.
C8_Idempotent ==
    [][((TimerFire \/ exit) /\ md5(Stringify(_data)) = _md5)
       => /\ writes' = writes
          /\ hist'.nWrites = hist.nWrites
          /\ file' = file]_vars

\* set(k, v), flush, set(k, v) again, flush: the second flush found the data
\* dirty with the last-known digest and one write was issued overall
C8_Witness ==
    /\ last = "timer"
    /\ hist.nMut = 2
    /\ hist.nExt = 0
    /\ hist.nInit = 0
    /\ changed
    /\ md5(Stringify(_data)) = _md5
    /\ writes = << >>
    /\ hist.nWrites = 1

\* this step completes the reconciling read i with bytes that do not decode
CorruptWatchRead(i) ==
    /\ IsBytes(file)
    /\ parseJSON(file).isNull
    /\ WatchReadDone(i, file)

\* C9: a reconciling read of content that fails to decode leaves the
\* in-memory data, the last-known digest and the emitted events unchanged
\* and ends with this._watch open again.
C9_CorruptKeepsMemory ==
    [][\A i \in DOMAIN reads :
         CorruptWatchRead(i)
         => /\ _data' = _data
            /\ _md5' = _md5
            /\ events' = events
            /\ _watch' = "open"]_vars

\* a reconciling read of corrupt content completed over non-empty data
C9_Witness ==
    /\ last = "readDoneErr"
    /\ hist.nFail = 0
    /\ hist.nInit = 0
    /\ IsBytes(file)
    /\ parseJSON(file).isNull
    /\ _data # EmptyData
    /\ _watch = "open"

\* C10: a reconciling read that fails (I/O error or corrupt content) emits
\* an 'error' event.
C10_ErrorsReported ==
    [][\A i \in DOMAIN reads, r \in {file, IOError} :
         (WatchReadDone(i, r) /\ _getFromDisk(r).err)
         => errorEvents' = errorEvents + 1]_vars

\* this step runs the callback of write i, which failed
FailedWriteDone(i) ==
    /\ writes[i].stage = "failed"
    /\ WriteDone(i)

\* C11: when a write issued by a timer-triggered flush fails, an 'error'
\* event is emitted.
C11_TimerFlushErrors ==
    [][\A i \in DOMAIN writes :
         (FailedWriteDone(i) /\ writes[i].callback = "noop")
         => errorEvents' = errorEvents + 1]_vars

\* C12: when a flush's write fails, the dirty flag is true afterwards, the
\* last-known digest and the in-memory data are unchanged, this._watch is
\* open again if watching is enabled, and the error reaches the flush's
\* callback (so that the next flush writes again).
C12_FailureRetryable ==
    [][\A i \in DOMAIN writes :
         FailedWriteDone(i)
         => /\ changed'
            /\ _md5' = _md5
            /\ _data' = _data
            /\ watch => _watch' = "open"
            /\ writes[i].callback = "exit" => exitCb' = Append(exitCb, "err")]_vars

\* this step runs the callback of init's read i, which completed with result
InitReadDone(i, result) ==
    /\ reads[i].callback = "init"
    /\ ReadDone(i, result)

\* what init passes to its callback and leaves in the store, by the result of
\* the read
InitOutcome(result) ==
    IF result = NoFile
    THEN initCb' = Append(initCb, "ok") /\ _data' = _data
    ELSE IF parseJSON(result).isNull
    THEN initCb' = Append(initCb, "err") /\ _data' = _data
    ELSE initCb' = Append(initCb, "ok") /\ _data' = parseJSON(result).value

\* C13 as stated: init completes with no error and an unchanged store when
\* there is no file, with an error and an unchanged store when the content
\* does not decode, with no error and the decoded content as the store
\* otherwise; and it emits no 'change' event.
C13_Original ==
    [][\A i \in DOMAIN reads : \A result \in {NoFile} \cup ExtContents \cup {Stringify(d) : d \in DataSet} :
         InitReadDone(i, result)
         => InitOutcome(result) /\ events' = events]_vars

\* C13, amended: the same outcomes; init emits a 'change' event exactly when
\* the content decodes, a digest is known and the content's digest differs
\* from it, and then the event carries the old and the decoded data.
C13_InitOutcomes ==
    [][\A i \in DOMAIN reads : \A result \in {NoFile} \cup ExtContents \cup {Stringify(d) : d \in DataSet} :
         InitReadDone(i, result)
         => /\ InitOutcome(result)
            /\ IF /\ result # NoFile
                  /\ ~parseJSON(result).isNull
                  /\ _md5 # NoDigest
                  /\ _md5 # md5(result)
               THEN events' = Append(events, <<_data, parseJSON(result).value>>)
               ELSE events' = events]_vars

\* init completed with no error on a file of valid content, which is now the
\* store, and no event was emitted
C13_Witness ==
    /\ last = "readDone"
    /\ initCb = <<"ok">>
    /\ IsBytes(file)
    /\ ~parseJSON(file).isNull
    /\ _data = parseJSON(file).value
    /\ _data # EmptyData
    /\ events = << >>

\* a call of set, delete or replace with undefined as its first argument
GuardedCall ==
    \/ \E v \in Values : set(Undefined, v)
    \/ del(Undefined)
    \/ \E d \in DataSet : replace(FALSE, d)

\* C14: set(undefined, v), delete(undefined) and replace(undefined) leave the
\* in-memory data, the dirty flag, the debounce timer, the last-known digest,
\* the watcher, the writes in flight and the file as they were.
C14_GuardedNoOps ==
    [][GuardedCall
       => UNCHANGED <<_data, changed, timerVars, _md5, watcherVars, writes,
                      reads, file, outVars>>]_vars

\* a guarded call was made while the store was dirty and a timer pending
C14_Witness ==
    /\ last \in {"set:undefined", "del:undefined", "replace:undefined"}
    /\ changed
    /\ _timeout
    /\ _data # EmptyData

\* C15: at most one write to the storage backend issued by this instance is
\* in flight.
C15_OneWriteInFlight == Len(writes) <= 1

\* a read started by _directoryChanged is in flight
WatchReadInFlight == \E i \in DOMAIN reads : reads[i].callback = "watch"

\* C16: with watching enabled and before exit, no watcher of this instance
\* is open while a write or a reconciling read of the instance is in flight,
\* and this._watch is open when none is.
C16_BracketScoped ==
    (watch /\ hist.nExit = 0)
    => IF writes # << >> \/ WatchReadInFlight
       THEN _watch # "open" /\ strayWatch = 0
       ELSE _watch = "open"

\* C17: at most one debounce timer is outstanding, and it is the one
\* this._timeout refers to: no timer that was replaced or cancelled is left
\* to fire.
C17_SingleTimer == TimersOutstanding <= 1 /\ strayTimers = 0

\* a second mutation was made while the timer of the first was pending
C17_Witness ==
    /\ hist.nMut >= 2
    /\ hist.pendingMuts >= 2
    /\ _timeout
    /\ TimersOutstanding = 1

\* C18: after exit, as long as no mutation follows, no debounce timer fires.
C18_ExitCancelsTimer ==
    [][(hist.nExit > 0 /\ ~hist.mutSinceExit) => ~TimerFire]_vars

\* nothing of the instance is pending: no timer, no write or read in flight,
\* no notification queued
Quiescent ==
    /\ TimersOutstanding = 0
    /\ writes = << >>
    /\ reads = << >>
    /\ ~notif
    /\ strayNotif = 0

\* C19: after mutations, with every write succeeding, no other process
\* writing, and no exit or init, once nothing is pending any more the file
\* holds the serialization of the in-memory data.  (From such a state only a
\* further call changes the file, so a state violating this is one from which
\* the file never comes to equal the data.)
C19_EventuallyPersisted ==
    (/\ hist.nMut >= 1
     /\ hist.nExt = 0
     /\ hist.nFail = 0
     /\ hist.nExit = 0
     /\ hist.nInit = 0
     /\ Quiescent)
    => file = Stringify(_data)

\* C20: before exit and with no read or write failing, the watcher
\* this._watch refers to is the only watcher of the instance that is open:
\* none that was replaced is left open.
C20_SingleWatcher == (hist.nExit = 0 /\ hist.nFail = 0) => strayWatch = 0

====
